---- MODULE Spec2Model ----
(***************************************************************************)
(* A model of the delta builder of lib-ot (core/delta/builder.rs) and of   *)
(* the document session's revision reconciliation protocol.                *)
(*                                                                         *)
(* Spec        : the DeltaBuilder state machine (new, the five appends,    *)
(*               trim, build).                                             *)
(* SessionSpec : one document session (local edit, remote revision,        *)
(*               acknowledgment, reload) next to the authoritative log.    *)
(***************************************************************************)
EXTENDS Integers, Sequences, FiniteSets, TLC

\* ------------------------------------------------------------------ bounds
\* Appends made on one builder before build().
MaxCalls == 4
\* Largest length argument n of retain / delete.
MaxN == 1
\* Longest string argument of insert.
MaxStrLen == 1
\* Longest document content of a session.
MaxLen == 3
\* Most revisions of one document, committed and pending together.
MaxRev == 4

Chars == {"a", "b"}
Keys == {"bold"}

SeqsUpTo(S, k) == UNION {[1..m -> S] : m \in 0..k}
Lens == 0..MaxN
Strs == SeqsUpTo(Chars, MaxStrLen)
AttrSets == SUBSET Keys

Min(x, y) == IF x <= y THEN x ELSE y

VARIABLES
    \* DeltaBuilder
    delta,              \* DeltaBuilder.delta: [ops, base_len, target_len]
    pc,                 \* "building" until build() consumed the builder, then "built"
    built,              \* the Delta build() returned
    last,               \* the last builder call: [op, n, s, attrs]
    ncalls,             \* builder calls made since new()
    \* Document session
    current_content,
    committed_revision,
    pending_local,
    state,              \* "Idle" | "LocalPending"
    integrity,          \* "ok" | "error" (the session is unusable)
    session_op,         \* the last session operation: "none" | "local" | "remote" | "ack" | "reload"
    session_result,     \* what it returned: "none" | "Revision" | "Ok" | "IntegrityError"
    last_md5,           \* the recorded checksum of the last applied revision
    server_content,     \* the authoritative log, replayed
    server_revision,    \* the authoritative log's length
    \* ViewController and the stores it works on
    view_table,         \* ViewTableSql: the ids that have a local view row
    server_views,       \* the ids the server created a view for
    documents,          \* per id, the saved revisions of its document (<<>>: none)
    open_cache,         \* per id, the Document Sessions the document controller holds
    latest_view_id,     \* KV entry LATEST_VIEW_ID ("none": no entry)
    view_call,          \* the last ViewController call: [op, id, result, data, copy, ids]
    belong_to,          \* per id, the belong_to_id of its view row ("none": no row)
    trash_ids,          \* TrashController: the ids that are in the trash
    views_changed,      \* the AppViewsChanged notifications the last step sent
    \* Delta compose / transform, applied to drawn inputs
    ot_A,
    ot_B,
    ot_op,              \* "none" | "compose" | "transform"
    ot_out,             \* what the function returned
    \* UserSession and the stores it works on
    session,            \* UserSession.session, the RwLock<Option<Session>> ("none": None)
    kv_session,         \* KV entry session_cache_key ("none": no entry)
    user_table,         \* the users whose row is in their user database
    signed_out,         \* sign_out returned Ok and no sign_in / sign_up set a session since
    user_call,          \* the last UserSession call that returned: [op, user, result, notified]
    reader_pc,          \* a concurrent get_session: "idle" | "read_kv" | "set_kv" | "write_session"
    reader_session,     \* its local `session`
    sign_out_pc,        \* sign_out: "idle" | "delete_user" | "remove_kv" | "write_session" | "notify" | "sign_out_on_server"
    sign_out_session,   \* its local `session`
    sign_out_done       \* what the running or last sign_out did so far, in order

builderVars == <<delta, pc, built, last, ncalls>>
sessionVars == <<current_content, committed_revision, pending_local, state,
                 integrity, session_op, session_result, last_md5, server_content,
                 server_revision>>
viewVars == <<view_table, server_views, documents, open_cache, latest_view_id,
              view_call, belong_to, trash_ids, views_changed>>
otVars == <<ot_A, ot_B, ot_op, ot_out>>
userVars == <<session, kv_session, user_table, signed_out, user_call, reader_pc,
              reader_session, sign_out_pc, sign_out_session, sign_out_done>>
vars == <<delta, pc, built, last, ncalls, current_content, committed_revision,
          pending_local, state, integrity, session_op, session_result, last_md5,
          server_content, server_revision, view_table, server_views, documents,
          open_cache, latest_view_id, view_call, belong_to, trash_ids,
          views_changed, ot_A, ot_B, ot_op, ot_out,
          session, kv_session, user_table, signed_out, user_call, reader_pc,
          reader_session, sign_out_pc, sign_out_session, sign_out_done>>

\* What the steps of one component leave alone.
outsideBuilder == <<sessionVars, viewVars, otVars, userVars>>
outsideSession == <<builderVars, viewVars, otVars, userVars>>
outsideView == <<builderVars, sessionVars, otVars, userVars>>
outsideOT == <<builderVars, sessionVars, viewVars, userVars>>
outsideUser == <<builderVars, sessionVars, viewVars, otVars>>

\* --------------------------------------------------------------- Operation
\* Operation::Retain(n, attrs) | Delete(n) | Insert(s, attrs), one record shape.
Retain(n, attrs) == [kind |-> "Retain", n |-> n, s |-> <<>>, attrs |-> attrs]
Delete(n) == [kind |-> "Delete", n |-> n, s |-> <<>>, attrs |-> {}]
Insert(s, attrs) == [kind |-> "Insert", n |-> Len(s), s |-> s, attrs |-> attrs]

\* Retain::is_plain: the attributes are empty.
is_plain(op) == op.attrs = {}

\* T::default(): the empty attributes.
DefaultAttrs == {}

\* ------------------------------------------------------------------- Delta
\* Delta::new()
NewDelta == [ops |-> <<>>, base_len |-> 0, target_len |-> 0]

LastOp(d) == d.ops[Len(d.ops)]
Front(ops) == SubSeq(ops, 1, Len(ops) - 1)
ReplaceLast(ops, op) == Append(Front(ops), op)

\* Delta::retain(n, attrs): a no-op for n = 0; merges into a last Retain with
\* identical attributes, else pushes.
Delta_retain(d, n, attrs) ==
    IF n = 0 THEN d
    ELSE LET ops == IF Len(d.ops) > 0 /\ LastOp(d).kind = "Retain"
                       /\ LastOp(d).attrs = attrs
                    THEN ReplaceLast(d.ops, Retain(LastOp(d).n + n, attrs))
                    ELSE Append(d.ops, Retain(n, attrs))
         IN [ops |-> ops, base_len |-> d.base_len + n,
             target_len |-> d.target_len + n]

\* Delta::delete without the n = 0 early return.
Delta_delete_no_zero_check(d, n) ==
    LET ops == IF Len(d.ops) > 0 /\ LastOp(d).kind = "Delete"
               THEN ReplaceLast(d.ops, Delete(LastOp(d).n + n))
               ELSE Append(d.ops, Delete(n))
    IN [ops |-> ops, base_len |-> d.base_len + n, target_len |-> d.target_len]

\* Delta::delete(n): a no-op for n = 0; merges into a last Delete, else pushes.
Delta_delete(d, n) ==
    IF n = 0 THEN d
    ELSE LET ops == IF Len(d.ops) > 0 /\ LastOp(d).kind = "Delete"
                    THEN ReplaceLast(d.ops, Delete(LastOp(d).n + n))
                    ELSE Append(d.ops, Delete(n))
         IN [ops |-> ops, base_len |-> d.base_len + n,
             target_len |-> d.target_len]

\* Delta::insert(s, attrs): a no-op for the empty string; merges into a last
\* Insert with identical attributes, else pushes (never across a Delete).
Delta_insert(d, s, attrs) ==
    IF Len(s) = 0 THEN d
    ELSE LET ops == IF Len(d.ops) > 0 /\ LastOp(d).kind = "Insert"
                       /\ LastOp(d).attrs = attrs
                    THEN ReplaceLast(d.ops, Insert(LastOp(d).s \o s, attrs))
                    ELSE Append(d.ops, Insert(s, attrs))
         IN [ops |-> ops, base_len |-> d.base_len,
             target_len |-> d.target_len + Len(s)]

\* trim with the is_plain test inverted: pops an attributed Retain, keeps a plain one.
trim_inverted_plain(d) ==
    IF Len(d.ops) > 0 /\ LastOp(d).kind = "Retain" /\ ~is_plain(LastOp(d))
    THEN [d EXCEPT !.ops = Front(d.ops)] ELSE d

\* trim without the is_plain test: pops any trailing Retain.
trim_any_retain(d) ==
    IF Len(d.ops) > 0 /\ LastOp(d).kind = "Retain"
    THEN [d EXCEPT !.ops = Front(d.ops)] ELSE d

\* trim without the match on the last operation: pops whatever is last.
trim_any_last(d) ==
    IF Len(d.ops) > 0 THEN [d EXCEPT !.ops = Front(d.ops)] ELSE d

\* builder.rs: pub fn trim(delta): pops the last operation when it is a plain
\* Retain; only delta.ops is touched.
trim(d) ==
    LET remove_last ==
            IF Len(d.ops) = 0 THEN FALSE
            ELSE CASE LastOp(d).kind = "Delete" -> FALSE
                   [] LastOp(d).kind = "Retain" -> is_plain(LastOp(d))
                   [] LastOp(d).kind = "Insert" -> FALSE
    IN IF remove_last THEN [d EXCEPT !.ops = Front(d.ops)] ELSE d

\* ------------------------------------------------------------ DeltaBuilder
Call(op, n, s, attrs) == [op |-> op, n |-> n, s |-> s, attrs |-> attrs]

\* One fluent call on the builder: `mut self -> Self`.
BuilderStep(d, call) ==
    /\ pc = "building"
    /\ ncalls < MaxCalls
    /\ delta' = d
    /\ last' = call
    /\ ncalls' = ncalls + 1
    /\ UNCHANGED <<pc, built>>
    /\ UNCHANGED outsideBuilder

\* DeltaBuilder::new(): a fresh builder over Delta::new(); the delta the last
\* build() returned has been taken by its caller.
DeltaBuilder_new ==
    /\ pc = "built"
    /\ delta' = NewDelta
    /\ pc' = "building"
    /\ built' = NewDelta
    /\ last' = Call("new", 0, <<>>, {})
    /\ ncalls' = 0
    /\ UNCHANGED outsideBuilder

DeltaBuilder_retain_with_attributes(n, attrs) ==
    BuilderStep(Delta_retain(delta, n, attrs),
                Call("retain_with_attributes", n, <<>>, attrs))

\* retain forwarding to the wrong Delta method (a copy of delete's body).
DeltaBuilder_retain_calls_delete(n) ==
    BuilderStep(Delta_delete(delta, n), Call("retain", n, <<>>, {}))

DeltaBuilder_retain(n) ==
    BuilderStep(Delta_retain(delta, n, DefaultAttrs), Call("retain", n, <<>>, {}))

\* delete forwarding to the wrong Delta method (a copy of retain's body).
DeltaBuilder_delete_calls_retain(n) ==
    BuilderStep(Delta_retain(delta, n, DefaultAttrs), Call("delete", n, <<>>, {}))

DeltaBuilder_delete(n) ==
    BuilderStep(Delta_delete(delta, n), Call("delete", n, <<>>, {}))

DeltaBuilder_insert_with_attributes(s, attrs) ==
    BuilderStep(Delta_insert(delta, s, attrs),
                Call("insert_with_attributes", Len(s), s, attrs))

DeltaBuilder_insert(s) ==
    BuilderStep(Delta_insert(delta, s, DefaultAttrs), Call("insert", Len(s), s, {}))

DeltaBuilder_trim ==
    BuilderStep(trim(delta), Call("trim", 0, <<>>, {}))

\* build(self) -> Delta: returns self.delta as accumulated.
DeltaBuilder_build ==
    /\ pc = "building"
    /\ built' = delta
    /\ pc' = "built"
    /\ UNCHANGED <<delta, last, ncalls>>
    /\ UNCHANGED outsideBuilder

\* ------------------------------------------------- Delta apply / transform
\* The first k units of an operation, and what is left after them.
TakeOp(op, k) ==
    IF op.kind = "Insert" THEN Insert(SubSeq(op.s, 1, k), op.attrs)
    ELSE [op EXCEPT !.n = k]
DropOp(op, k) ==
    IF op.kind = "Insert" THEN Insert(SubSeq(op.s, k + 1, Len(op.s)), op.attrs)
    ELSE [op EXCEPT !.n = op.n - k]
\* The cursor moved k units into the head operation.
Advance(ops, k) ==
    IF k = Head(ops).n THEN Tail(ops) ELSE <<DropOp(Head(ops), k)>> \o Tail(ops)

\* The failed call: no delta, partial or other.
LengthMismatch == [ops |-> <<>>, base_len |-> -1, target_len |-> -1]

RECURSIVE ApplyOps(_, _)
\* Retain copies, Insert adds, Delete skips; what no operation covers is kept
\* (a trimmed trailing plain Retain).
ApplyOps(ops, content) ==
    IF ops = <<>> THEN content
    ELSE LET op == Head(ops)
         IN CASE op.kind = "Retain" ->
                    SubSeq(content, 1, op.n)
                    \o ApplyOps(Tail(ops), SubSeq(content, op.n + 1, Len(content)))
              [] op.kind = "Insert" -> op.s \o ApplyOps(Tail(ops), content)
              [] op.kind = "Delete" ->
                    ApplyOps(Tail(ops), SubSeq(content, op.n + 1, Len(content)))

\* Applying a delta to the content it was made for (base_len = its length).
Apply(d, content) == ApplyOps(d.ops, content)

\* Retain/Retain: the priority side keeps its attributes, the other side loses
\* the keys both define.
TransformAttrs(a, b, priority) == IF priority THEN a ELSE a \ b

RECURSIVE TransformOps(_, _, _, _)
\* a rewritten to apply after b, both walked by remaining length. An Insert of a
\* is emitted (first on a tie when a has priority), an Insert of b becomes a
\* plain Retain of its length, a Delete of either consumes without output.
TransformOps(a, b, priority, out) ==
    IF a = <<>> /\ b = <<>> THEN out
    ELSE IF /\ a # <<>> /\ Head(a).kind = "Insert"
            /\ (priority \/ b = <<>> \/ Head(b).kind # "Insert")
    THEN TransformOps(Tail(a), b, priority,
                      Delta_insert(out, Head(a).s, Head(a).attrs))
    ELSE IF b # <<>> /\ Head(b).kind = "Insert"
    THEN TransformOps(a, Tail(b), priority, Delta_retain(out, Head(b).n, {}))
    ELSE IF a = <<>> \/ b = <<>> THEN LengthMismatch
    ELSE LET k == Min(Head(a).n, Head(b).n)
             ka == Head(a).kind
             kb == Head(b).kind
             emitted ==
                 CASE ka = "Retain" /\ kb = "Retain" ->
                        Delta_retain(out, k,
                            TransformAttrs(Head(a).attrs, Head(b).attrs, priority))
                   [] ka = "Delete" /\ kb = "Retain" -> Delta_delete(out, k)
                   [] OTHER -> out
         IN TransformOps(Advance(a, k), Advance(b, k), priority, emitted)

\* transform(X, Y, priority): X rewritten to apply after Y; needs equal base_len.
Transform(X, Y, priority) ==
    IF X.base_len # Y.base_len THEN LengthMismatch
    ELSE TransformOps(X.ops, Y.ops, priority, NewDelta)

\* --------------------------------------------------------- Delta compose
\* Attributes merged: the keys of both (one value per key).
ComposeAttrs(a, b) == a \cup b

RECURSIVE ComposeOps_partial_on_mismatch(_, _, _)
\* The walk that returns what it has emitted when one side runs out.
ComposeOps_partial_on_mismatch(a, b, out) ==
    IF a = <<>> /\ b = <<>> THEN out
    ELSE IF a # <<>> /\ Head(a).kind = "Delete"
    THEN ComposeOps_partial_on_mismatch(Tail(a), b, Delta_delete(out, Head(a).n))
    ELSE IF b # <<>> /\ Head(b).kind = "Insert"
    THEN ComposeOps_partial_on_mismatch(a, Tail(b),
                                        Delta_insert(out, Head(b).s, Head(b).attrs))
    ELSE IF a = <<>> \/ b = <<>> THEN out
    ELSE LET k == Min(Head(a).n, Head(b).n)
             ka == Head(a).kind
             kb == Head(b).kind
             merged == ComposeAttrs(Head(a).attrs, Head(b).attrs)
             emitted ==
                 CASE ka = "Insert" /\ kb = "Retain" ->
                        Delta_insert(out, TakeOp(Head(a), k).s, merged)
                   [] ka = "Insert" /\ kb = "Delete" -> out
                   [] ka = "Retain" /\ kb = "Retain" -> Delta_retain(out, k, merged)
                   [] ka = "Retain" /\ kb = "Delete" -> Delta_delete(out, k)
         IN ComposeOps_partial_on_mismatch(Advance(a, k), Advance(b, k), emitted)

RECURSIVE ComposeOps(_, _, _)
\* Both sequences walked by remaining length, one merged operation emitted per
\* step: a Delete of A is emitted as it is met (an Insert of B comes after it),
\* an Insert of B is emitted, Insert/Retain keeps A's content with the merged
\* attributes, Insert/Delete cancels, Retain/Retain retains with the merged
\* attributes, Retain/Delete deletes. A side that runs out first fails the call.
ComposeOps(a, b, out) ==
    IF a = <<>> /\ b = <<>> THEN out
    ELSE IF a # <<>> /\ Head(a).kind = "Delete"
    THEN ComposeOps(Tail(a), b, Delta_delete(out, Head(a).n))
    ELSE IF b # <<>> /\ Head(b).kind = "Insert"
    THEN ComposeOps(a, Tail(b), Delta_insert(out, Head(b).s, Head(b).attrs))
    ELSE IF a = <<>> \/ b = <<>> THEN LengthMismatch
    ELSE LET k == Min(Head(a).n, Head(b).n)
             ka == Head(a).kind
             kb == Head(b).kind
             merged == ComposeAttrs(Head(a).attrs, Head(b).attrs)
             emitted ==
                 CASE ka = "Insert" /\ kb = "Retain" ->
                        Delta_insert(out, TakeOp(Head(a), k).s, merged)
                   [] ka = "Insert" /\ kb = "Delete" -> out
                   [] ka = "Retain" /\ kb = "Retain" -> Delta_retain(out, k, merged)
                   [] ka = "Retain" /\ kb = "Delete" -> Delta_delete(out, k)
         IN ComposeOps(Advance(a, k), Advance(b, k), emitted)

\* compose without the length requirement: the walk starts on any two deltas
\* and returns what it emitted.
Compose_unchecked(A, B) ==
    trim(ComposeOps_partial_on_mismatch(A.ops, B.ops, NewDelta))

\* compose(A, B): A then B; needs A.target_len = B.base_len; the result is
\* canonicalized (merged by the appends, trimmed) before it is returned.
Compose(A, B) ==
    IF A.target_len # B.base_len THEN LengthMismatch
    ELSE LET r == ComposeOps(A.ops, B.ops, NewDelta)
         IN IF r = LengthMismatch THEN LengthMismatch ELSE trim(r)

\* Most operations of a delta drawn as an input of compose / transform.
MaxOps == 2

\* The operations the inputs are appended from.
InputOps ==
    {Retain(1, {}), Retain(1, {"bold"}), Delete(1),
     Insert(<<"a">>, {}), Insert(<<"b">>, {})}

RECURSIVE AppendAll(_, _)
\* The delta the builder's appends make of a list of operations.
AppendAll(d, ops) ==
    IF ops = <<>> THEN d
    ELSE LET op == Head(ops)
             added == CASE op.kind = "Insert" -> Delta_insert(d, op.s, op.attrs)
                        [] op.kind = "Retain" -> Delta_retain(d, op.n, op.attrs)
                        [] op.kind = "Delete" -> Delta_delete(d, op.n)
         IN AppendAll(added, Tail(ops))

InputDeltas == {AppendAll(NewDelta, ops) : ops \in SeqsUpTo(InputOps, MaxOps)}

\* compose(A, B) is called on the inputs.
Delta_compose ==
    /\ ot_op = "none"
    /\ ot_op' = "compose"
    /\ ot_out' = Compose(ot_A, ot_B)
    /\ UNCHANGED <<ot_A, ot_B>>
    /\ UNCHANGED outsideOT

\* transform(A, B, priority) is called on the inputs.
Delta_transform(priority) ==
    /\ ot_op = "none"
    /\ ot_op' = IF priority THEN "transform, priority" ELSE "transform"
    /\ ot_out' = Transform(ot_A, ot_B, priority)
    /\ UNCHANGED <<ot_A, ot_B>>
    /\ UNCHANGED outsideOT

\* -------------------------------------------------------- Document session
\* checksum-of(content): an injective digest.
Checksum(content) == <<"md5", content>>
NoChecksum == <<"none", <<>>>>
\* A recorded checksum that is the digest of no content.
CorruptChecksum == <<"corrupt", <<>>>>

Revision(base, d, md5) == [base_revision |-> base, delta |-> d, md5 |-> md5]

\* What this client types and what the other clients type: the protocol never
\* looks at a character, the two origins stay apart in the content.
LocalChars == {"a"}
RemoteChars == {"b"}

\* The edits a client typing cs makes on a document of length len: one character
\* in, one out, or one replaced.
InsertAt(p, c, len) ==
    Delta_retain(Delta_insert(Delta_retain(NewDelta, p, {}), <<c>>, {}), len - p, {})
DeleteAt(p, len) ==
    Delta_retain(Delta_delete(Delta_retain(NewDelta, p, {}), 1), len - p - 1, {})
ReplaceAt(p, c, len) ==
    Delta_retain(Delta_insert(Delta_delete(Delta_retain(NewDelta, p, {}), 1),
                              <<c>>, {}), len - p - 1, {})
EditsOn(len, cs) ==
    {InsertAt(p, c, len) : p \in 0..len, c \in cs}
    \cup {DeleteAt(p, len) : p \in 0..(len - 1)}
    \cup {ReplaceAt(p, c, len) : p \in 0..(len - 1), c \in cs}

RECURSIVE ApplyAll(_, _)
\* The pending revisions' deltas applied in order, oldest first.
ApplyAll(revisions, content) ==
    IF revisions = <<>> THEN content
    ELSE ApplyAll(Tail(revisions), Apply(Head(revisions).delta, content))

\* Local edit: Revision {committed_revision + pending_local.len(), D}, appended
\* to pending_local, D applied to current_content.
apply_local_delta(D) ==
    /\ integrity = "ok"
    /\ committed_revision + Len(pending_local) < MaxRev
    /\ D.base_len = Len(current_content)
    /\ Len(Apply(D, current_content)) <= MaxLen
    /\ LET content == Apply(D, current_content)
           revision == Revision(committed_revision + Len(pending_local), D,
                                Checksum(content))
       IN /\ pending_local' = Append(pending_local, revision)
          /\ current_content' = content
    /\ state' = "LocalPending"
    /\ session_op' = "local"
    /\ session_result' = "Revision"
    /\ UNCHANGED <<committed_revision, integrity, last_md5, server_content,
                   server_revision>>
    /\ UNCHANGED outsideSession

\* controller.rs: receive_document_delta hands the editor's delta to the
\* document controller.
receive_document_delta(D) == apply_local_delta(D)

RECURSIVE Reconcile_pending_yields(_, _, _)
\* The remote delta carried over the pending revisions with the tie-break
\* reversed on the pending side: both sides yield to the other's insert.
Reconcile_pending_yields(pending, remote, done) ==
    IF pending = <<>> THEN [pending |-> done, remote |-> remote]
    ELSE LET P == Head(pending)
         IN Reconcile_pending_yields(Tail(pending), Transform(remote, P.delta, FALSE),
                Append(done, [P EXCEPT !.delta = Transform(P.delta, remote, FALSE)]))

RECURSIVE Reconcile(_, _, _)
\* The remote delta is transformed against every pending revision, oldest first,
\* the local side having priority, and each pending delta against the remote
\* delta as it reaches it.
Reconcile(pending, remote, done) ==
    IF pending = <<>> THEN [pending |-> done, remote |-> remote]
    ELSE LET P == Head(pending)
         IN Reconcile(Tail(pending), Transform(remote, P.delta, FALSE),
                Append(done, [P EXCEPT !.delta = Transform(P.delta, remote, TRUE)]))

\* Divergence detection, after a revision was applied.
IntegrityCheck(content, md5) ==
    IF Checksum(content) = md5
    THEN /\ integrity' = "ok" /\ session_result' = "Ok"
    ELSE /\ integrity' = "error" /\ session_result' = "IntegrityError"

\* The check that reports the mismatch and leaves the session usable.
apply_remote_revision_stays_usable(R) ==
    /\ integrity = "ok"
    /\ committed_revision + Len(pending_local) < MaxRev
    /\ R.delta.base_len = Len(server_content)
    /\ LET r == Reconcile(pending_local, R.delta, <<>>)
           content == Apply(r.remote, current_content)
       IN /\ Len(content) <= MaxLen
          /\ current_content' = content
          /\ pending_local' = r.pending
          /\ session_result' = IF Checksum(content) = R.md5 THEN "Ok"
                               ELSE "IntegrityError"
    /\ integrity' = "ok"
    /\ committed_revision' = committed_revision + 1
    /\ last_md5' = R.md5
    /\ session_op' = "remote"
    /\ server_content' = Apply(R.delta, server_content)
    /\ server_revision' = server_revision + 1
    /\ UNCHANGED state
    /\ UNCHANGED outsideSession

\* Remote revision R, the next of the authoritative log: reconciled with the
\* pending revisions, applied, committed_revision advanced, checksum compared.
apply_remote_revision(R) ==
    /\ integrity = "ok"
    /\ committed_revision + Len(pending_local) < MaxRev
    /\ R.delta.base_len = Len(server_content)
    /\ LET r == Reconcile(pending_local, R.delta, <<>>)
           content == Apply(r.remote, current_content)
       IN /\ Len(content) <= MaxLen
          /\ current_content' = content
          /\ pending_local' = r.pending
          /\ IntegrityCheck(content, R.md5)
    /\ committed_revision' = committed_revision + 1
    /\ last_md5' = R.md5
    /\ session_op' = "remote"
    /\ server_content' = Apply(R.delta, server_content)
    /\ server_revision' = server_revision + 1
    /\ UNCHANGED state
    /\ UNCHANGED outsideSession

\* The acknowledgment that always returns to Idle.
acknowledge_always_idle(md5) ==
    /\ integrity = "ok"
    /\ pending_local # <<>>
    /\ pending_local' = Tail(pending_local)
    /\ committed_revision' = committed_revision + 1
    /\ state' = "Idle"
    /\ IntegrityCheck(current_content, md5)
    /\ last_md5' = md5
    /\ session_op' = "ack"
    /\ server_content' = Apply(Head(pending_local).delta, server_content)
    /\ server_revision' = server_revision + 1
    /\ UNCHANGED current_content
    /\ UNCHANGED outsideSession

\* Acknowledgment: the server accepted the oldest pending revision as the next
\* of the log; it is popped, committed_revision advances, Idle once none is left.
acknowledge(md5) ==
    /\ integrity = "ok"
    /\ pending_local # <<>>
    /\ pending_local' = Tail(pending_local)
    /\ committed_revision' = committed_revision + 1
    /\ state' = IF Tail(pending_local) = <<>> THEN "Idle" ELSE "LocalPending"
    /\ IntegrityCheck(current_content, md5)
    /\ last_md5' = md5
    /\ session_op' = "ack"
    /\ server_content' = Apply(Head(pending_local).delta, server_content)
    /\ server_revision' = server_revision + 1
    /\ UNCHANGED current_content
    /\ UNCHANGED outsideSession

\* The failed session is discarded and the document reloaded from the log.
reload ==
    /\ integrity = "error"
    /\ current_content' = server_content
    /\ committed_revision' = server_revision
    /\ pending_local' = <<>>
    /\ state' = "Idle"
    /\ integrity' = "ok"
    /\ session_op' = "reload"
    /\ session_result' = "none"
    /\ last_md5' = NoChecksum
    /\ UNCHANGED <<server_content, server_revision>>
    /\ UNCHANGED outsideSession

\* The recorded checksum of the revision the server sends next, another client's
\* edit D of the log's content: the server's, the one matching this client's
\* content, or a corrupt one.
RemoteChecksums(D) ==
    {Checksum(Apply(D, server_content)),
     Checksum(Apply(Reconcile(pending_local, D, <<>>).remote, current_content)),
     CorruptChecksum}

\* The recorded checksum an acknowledgment carries: the one the session
\* recorded, the log's, or the one matching this client's content.
AckChecksums ==
    {Head(pending_local).md5,
     Checksum(Apply(Head(pending_local).delta, server_content)),
     Checksum(current_content)}

\* ---------------------------------------------------------- ViewController
\* Most local edits one document receives after its initial revision.
MaxEdits == 1

ViewIds == {"v1", "v2"}
NoViewId == "none"

\* Delta JSON: the list of the tagged operations, in order.
Delta_to_json(d) == d.ops

\* Each operation of the list is added to the delta, which merges as it appends.
Delta_from_json(json) == AppendAll(NewDelta, json)

\* CreateViewParams.view_data: the caller's document JSON, canonical or not.
ViewData ==
    {<<Insert(<<"a">>, {})>>,
     <<Insert(<<"a">>, {}), Insert(<<"b">>, {})>>}

\* Revision::initial_revision: revision 0, the data as given.
\* The view_data of the views made where only the trash is looked at.
TrashViewData == <<Insert(<<"a">>, {})>>

initial_revision(delta_data) == Revision(0, delta_data, Checksum(delta_data))

RECURSIVE Replay(_, _)
\* The deltas of the saved revisions composed in order onto the document.
Replay(revisions, document) ==
    IF revisions = <<>> THEN document
    ELSE Replay(Tail(revisions),
                Compose(document, Delta_from_json(Head(revisions).delta)))

\* A Document Session: the state of one open document.
DocumentSession(content, committed, pending) ==
    [current_content |-> content, committed_revision |-> committed,
     pending_local |-> pending]

\* open loads the saved revision log and replays it onto the empty document.
LoadSession(revisions) == DocumentSession(Replay(revisions, NewDelta), Len(revisions), <<>>)

\* The document controller finds the document: a session is open or a log is saved.
CanOpen(doc_id) == open_cache[doc_id] # <<>> \/ documents[doc_id] # <<>>

\* open that makes a session on every call.
controller_open_always_new(doc_id) ==
    [open_cache EXCEPT ![doc_id] = Append(@, LoadSession(documents[doc_id]))]

\* controller.open(doc_id): the session of the document, made from the saved log
\* when none is open.
controller_open(doc_id) ==
    IF open_cache[doc_id] # <<>> THEN open_cache
    ELSE [open_cache EXCEPT ![doc_id] = <<LoadSession(documents[doc_id])>>]

\* The editor open returned.
Editor(cache, doc_id) == Head(cache[doc_id])

\* editor.document_json(): the current content as delta JSON.
document_json(editor) == Delta_to_json(editor.current_content)

\* controller.close(doc_id): the session is torn down, its pending sends with
\* it; unacknowledged revisions are reported, not swallowed.
controller_close_result(doc_id) ==
    IF open_cache[doc_id] # <<>> /\ Editor(open_cache, doc_id).pending_local # <<>>
    THEN "UnsyncedEditsDiscarded" ELSE "Ok"
controller_close(doc_id) == [open_cache EXCEPT ![doc_id] = <<>>]

\* View.belong_to_id: the app (or view) a view belongs to.
Parents == {"a1", "a2"}
\* The one app the views are made in where the trash plays no part.
AppId == "a1"
NoParent == "none"

\* The order the view table returns its rows in.
ViewOrder == <<"v1", "v2">>

\* ViewTableSql::read_views(belong_to_id, conn): the rows of that parent;
\* parents is the belong_to_id column.
read_views(belong_to_id, table, parents) ==
    SelectSeq(ViewOrder, LAMBDA v : v \in table /\ parents[v] = belong_to_id)

\* read_belonging_views_on_local that keeps the views that are in the trash.
read_belonging_views_unfiltered(belong_to_id, table, parents, trash) ==
    read_views(belong_to_id, table, parents)

\* read_belonging_views_on_local: the rows of the parent, those whose id
\* read_trash_ids holds removed.
read_belonging_views_on_local(belong_to_id, table, parents, trash) ==
    SelectSeq(read_views(belong_to_id, table, parents), LAMBDA v : v \notin trash)

\* notify_views_changed: the AppViewsChanged notification of the parent, its
\* payload the belonging views.
notify_views_changed(belong_to_id, table, parents, trash) ==
    [belong_to_id |-> belong_to_id,
     items |-> read_belonging_views_on_local(belong_to_id, table, parents, trash)]

ViewCall(op, id, result, data, copy) ==
    [op |-> op, id |-> id, result |-> result, data |-> data, copy |-> copy,
     ids |-> <<>>]
\* The reply sent for a trash event.
TrashReply(op, ids, result) ==
    [op |-> op, id |-> NoViewId, result |-> result, data |-> <<>>, copy |-> NoViewId,
     ids |-> ids]

\* What create_view_from_params leaves behind: the initial revision is saved,
\* then the view is made on the server, then the row is saved locally; the first
\* step that fails ends the call.
CreateSteps == <<"save_document", "create_view_on_server", "create_view_on_local">>
StepsBefore(fail) ==
    IF fail = "none" THEN 3
    ELSE (CHOOSE i \in 1..3 : CreateSteps[i] = fail) - 1

Fresh(view_id) ==
    /\ documents[view_id] = <<>>
    /\ view_id \notin view_table
    /\ view_id \notin server_views

\* create_view_from_params with the view made on the server and locally before
\* the initial revision is saved.
Created_document_last(view_id, view_data, done) ==
    [documents |-> IF done >= 3
                   THEN [documents EXCEPT ![view_id] = <<initial_revision(view_data)>>]
                   ELSE documents,
     server_views |-> IF done >= 1 THEN server_views \cup {view_id} ELSE server_views,
     view_table |-> IF done >= 2 THEN view_table \cup {view_id} ELSE view_table]

\* The stores after the steps of create_view_from_params that ran.
Created(view_id, view_data, done) ==
    [documents |-> IF done >= 1
                   THEN [documents EXCEPT ![view_id] = <<initial_revision(view_data)>>]
                   ELSE documents,
     server_views |-> IF done >= 2 THEN server_views \cup {view_id} ELSE server_views,
     view_table |-> IF done >= 3 THEN view_table \cup {view_id} ELSE view_table]

\* save_view: the belong_to_id column once the row is saved.
save_view(view_id, belong_to_id, done) ==
    IF done >= 3 THEN [belong_to EXCEPT ![view_id] = belong_to_id] ELSE belong_to

\* create_view_on_local: in one transaction the row is saved and the parent's
\* AppViewsChanged notification sent.
create_view_on_local(view_id, belong_to_id, table, done) ==
    IF done >= 3
    THEN {notify_views_changed(belong_to_id, table,
                               save_view(view_id, belong_to_id, done), trash_ids)}
    ELSE {}

\* create_view_from_params(params): fail names the step that returns the error.
create_view_from_params(view_id, belong_to_id, view_data, fail) ==
    /\ Fresh(view_id)
    /\ LET done == StepsBefore(fail)
           after == Created(view_id, view_data, done)
       IN /\ documents' = after.documents
          /\ server_views' = after.server_views
          /\ view_table' = after.view_table
          /\ belong_to' = save_view(view_id, belong_to_id, done)
          /\ views_changed' = create_view_on_local(view_id, belong_to_id, after.view_table, done)
    /\ view_call' = ViewCall("create_view_from_params", view_id,
                             IF fail = "none" THEN "Ok" ELSE "Err", view_data, NoViewId)
    /\ UNCHANGED <<open_cache, latest_view_id, trash_ids>>
    /\ UNCHANGED outsideView

\* open_view that sets LATEST_VIEW_ID before it opens the document.
open_view_sets_latest_first(doc_id, json_fails) ==
    /\ latest_view_id' = doc_id
    /\ IF ~CanOpen(doc_id)
       THEN /\ view_call' = ViewCall("open_view", doc_id, "RecordNotFound", <<>>, NoViewId)
            /\ UNCHANGED open_cache
       ELSE LET cache == controller_open(doc_id)
            IN /\ open_cache' = cache
               /\ view_call' =
                    IF json_fails
                    THEN ViewCall("open_view", doc_id, "Err", <<>>, NoViewId)
                    ELSE ViewCall("open_view", doc_id, "Ok",
                                  document_json(Editor(cache, doc_id)), NoViewId)
    /\ UNCHANGED <<view_table, server_views, documents>>
    /\ views_changed' = {}
    /\ UNCHANGED <<belong_to, trash_ids>>
    /\ UNCHANGED outsideView

\* open_view(params): the document is opened, LATEST_VIEW_ID is set to it, then
\* its JSON is read; json_fails: document_json returns the error.
open_view(doc_id, json_fails) ==
    /\ IF ~CanOpen(doc_id)
       THEN /\ view_call' = ViewCall("open_view", doc_id, "RecordNotFound", <<>>, NoViewId)
            /\ UNCHANGED <<open_cache, latest_view_id>>
       ELSE LET cache == controller_open(doc_id)
            IN /\ open_cache' = cache
               /\ latest_view_id' = doc_id
               /\ view_call' =
                    IF json_fails
                    THEN ViewCall("open_view", doc_id, "Err", <<>>, NoViewId)
                    ELSE ViewCall("open_view", doc_id, "Ok",
                                  document_json(Editor(cache, doc_id)), NoViewId)
    /\ UNCHANGED <<view_table, server_views, documents>>
    /\ views_changed' = {}
    /\ UNCHANGED <<belong_to, trash_ids>>
    /\ UNCHANGED outsideView

\* close_view that drops what controller.close returned.
close_view_swallows_result(doc_id) ==
    /\ open_cache' = controller_close(doc_id)
    /\ view_call' = ViewCall("close_view", doc_id, "Ok", <<>>, NoViewId)
    /\ UNCHANGED <<view_table, server_views, documents, latest_view_id>>
    /\ views_changed' = {}
    /\ UNCHANGED <<belong_to, trash_ids>>
    /\ UNCHANGED outsideView

\* close_view(params): controller.close(doc_id)?, its error handed on.
close_view(doc_id) ==
    /\ open_cache' = controller_close(doc_id)
    /\ view_call' = ViewCall("close_view", doc_id, controller_close_result(doc_id),
                             <<>>, NoViewId)
    /\ UNCHANGED <<view_table, server_views, documents, latest_view_id>>
    /\ views_changed' = {}
    /\ UNCHANGED <<belong_to, trash_ids>>
    /\ UNCHANGED outsideView

\* delete_view that forgets to close the document.
delete_view_without_close(doc_id) ==
    /\ latest_view_id' = IF latest_view_id = doc_id THEN NoViewId ELSE latest_view_id
    /\ view_call' = ViewCall("delete_view", doc_id, "Ok", <<>>, NoViewId)
    /\ UNCHANGED <<view_table, server_views, documents, open_cache>>
    /\ views_changed' = {}
    /\ UNCHANGED <<belong_to, trash_ids>>
    /\ UNCHANGED outsideView

\* delete_view(params): LATEST_VIEW_ID is removed when it names the document,
\* then the document is closed.
delete_view(doc_id) ==
    /\ latest_view_id' = IF latest_view_id = doc_id THEN NoViewId ELSE latest_view_id
    /\ open_cache' = controller_close(doc_id)
    /\ view_call' = ViewCall("delete_view", doc_id, controller_close_result(doc_id),
                             <<>>, NoViewId)
    /\ UNCHANGED <<view_table, server_views, documents>>
    /\ views_changed' = {}
    /\ UNCHANGED <<belong_to, trash_ids>>
    /\ UNCHANGED outsideView

\* export_doc that reloads the document from the saved log instead of using
\* the open session.
export_doc_reloads(doc_id, json_fails) ==
    /\ IF ~CanOpen(doc_id)
       THEN /\ view_call' = ViewCall("export_doc", doc_id, "RecordNotFound", <<>>, NoViewId)
            /\ UNCHANGED open_cache
       ELSE LET cache == [open_cache EXCEPT
                            ![doc_id] = <<LoadSession(documents[doc_id])>>]
            IN /\ open_cache' = cache
               /\ view_call' =
                    IF json_fails
                    THEN ViewCall("export_doc", doc_id, "Err", <<>>, NoViewId)
                    ELSE ViewCall("export_doc", doc_id, "Ok",
                                  document_json(Editor(cache, doc_id)), NoViewId)
    /\ UNCHANGED <<view_table, server_views, documents, latest_view_id>>
    /\ views_changed' = {}
    /\ UNCHANGED <<belong_to, trash_ids>>
    /\ UNCHANGED outsideView

\* export_doc(params): the document is opened and its JSON returned as the data.
export_doc(doc_id, json_fails) ==
    /\ IF ~CanOpen(doc_id)
       THEN /\ view_call' = ViewCall("export_doc", doc_id, "RecordNotFound", <<>>, NoViewId)
            /\ UNCHANGED open_cache
       ELSE LET cache == controller_open(doc_id)
            IN /\ open_cache' = cache
               /\ view_call' =
                    IF json_fails
                    THEN ViewCall("export_doc", doc_id, "Err", <<>>, NoViewId)
                    ELSE ViewCall("export_doc", doc_id, "Ok",
                                  document_json(Editor(cache, doc_id)), NoViewId)
    /\ UNCHANGED <<view_table, server_views, documents, latest_view_id>>
    /\ views_changed' = {}
    /\ UNCHANGED <<belong_to, trash_ids>>
    /\ UNCHANGED outsideView

\* duplicate_view(params): the view row is read, the document opened, its JSON
\* becomes the view_data of a new view (uuid_string) made by
\* create_view_from_params; fail names the step that returns the error.
duplicate_view(doc_id, view_id, fail) ==
    /\ Fresh(view_id)
    /\ view_id # doc_id
    /\ IF doc_id \notin view_table \/ ~CanOpen(doc_id)
       THEN /\ view_call' = ViewCall("duplicate_view", doc_id, "RecordNotFound", <<>>,
                                     NoViewId)
            /\ views_changed' = {}
            /\ UNCHANGED <<view_table, server_views, documents, open_cache, belong_to>>
       ELSE LET cache == controller_open(doc_id)
                json == document_json(Editor(cache, doc_id))
            IN /\ open_cache' = cache
               /\ IF fail = "document_json"
                  THEN /\ view_call' = ViewCall("duplicate_view", doc_id, "Err", <<>>,
                                                NoViewId)
                       /\ views_changed' = {}
                       /\ UNCHANGED <<view_table, server_views, documents, belong_to>>
                  ELSE LET done == StepsBefore(fail)
                           after == Created(view_id, json, done)
                       IN /\ documents' = after.documents
                          /\ server_views' = after.server_views
                          /\ view_table' = after.view_table
                          /\ belong_to' = save_view(view_id, belong_to[doc_id], done)
                          /\ views_changed' = create_view_on_local(view_id, belong_to[doc_id],
                                                              after.view_table, done)
                          /\ view_call' = ViewCall("duplicate_view", doc_id,
                                             IF fail = "none" THEN "Ok" ELSE "Err",
                                             json, view_id)
    /\ UNCHANGED <<latest_view_id, trash_ids>>
    /\ UNCHANGED outsideView

\* controller.apply_document_delta: a local edit of an open document (c typed at
\* its end): the revision is appended to pending_local, the delta composed onto
\* current_content.
apply_document_delta(doc_id, c) ==
    /\ open_cache[doc_id] # <<>>
    /\ LET editor == Editor(open_cache, doc_id)
           len == editor.current_content.target_len
           D == InsertAt(len, c, len)
           content == Compose(editor.current_content, D)
           revision == Revision(editor.committed_revision + Len(editor.pending_local),
                                Delta_to_json(D), Checksum(Delta_to_json(content)))
       IN /\ editor.committed_revision + Len(editor.pending_local) < 1 + MaxEdits
          /\ open_cache' = [open_cache EXCEPT ![doc_id] =
                              <<DocumentSession(content, editor.committed_revision,
                                    Append(editor.pending_local, revision))>>]
    /\ view_call' = ViewCall("receive_document_delta", doc_id, "Ok", <<>>, NoViewId)
    /\ UNCHANGED <<view_table, server_views, documents, latest_view_id>>
    /\ views_changed' = {}
    /\ UNCHANGED <<belong_to, trash_ids>>
    /\ UNCHANGED outsideView

\* The server acknowledged the oldest pending revision of an open document: it
\* is the next of the saved log.
revision_acked(doc_id) ==
    /\ open_cache[doc_id] # <<>>
    /\ Editor(open_cache, doc_id).pending_local # <<>>
    /\ LET editor == Editor(open_cache, doc_id)
       IN /\ documents' = [documents EXCEPT
                             ![doc_id] = Append(@, Head(editor.pending_local))]
          /\ open_cache' = [open_cache EXCEPT ![doc_id] =
                              <<DocumentSession(editor.current_content,
                                    editor.committed_revision + 1,
                                    Tail(editor.pending_local))>>]
    /\ view_call' = ViewCall("revision_acked", doc_id, "Ok", <<>>, NoViewId)
    /\ UNCHANGED <<view_table, server_views, latest_view_id>>
    /\ views_changed' = {}
    /\ UNCHANGED <<belong_to, trash_ids>>
    /\ UNCHANGED outsideView

\* set_latest_view(view): view is a View the caller read from the table.
set_latest_view(view_id) ==
    /\ view_id \in view_table
    /\ latest_view_id' = view_id
    /\ view_call' = ViewCall("set_latest_view", view_id, "Ok", <<>>, NoViewId)
    /\ UNCHANGED <<view_table, server_views, documents, open_cache>>
    /\ views_changed' = {}
    /\ UNCHANGED <<belong_to, trash_ids>>
    /\ UNCHANGED outsideView

\* latest_visit_view(): None without the KV entry, else the row it names is read.
latest_visit_view ==
    /\ view_call' =
         IF latest_view_id = NoViewId
         THEN ViewCall("latest_visit_view", NoViewId, "None", <<>>, NoViewId)
         ELSE IF latest_view_id \in view_table
         THEN ViewCall("latest_visit_view", latest_view_id, "Some", <<>>, NoViewId)
         ELSE ViewCall("latest_visit_view", latest_view_id, "RecordNotFound", <<>>,
                       NoViewId)
    /\ UNCHANGED <<view_table, server_views, documents, open_cache, latest_view_id>>
    /\ views_changed' = {}
    /\ UNCHANGED <<belong_to, trash_ids>>
    /\ UNCHANGED outsideView

RECURSIVE DeleteViews(_, _, _, _)
\* The loop of TrashEvent::Delete over the identifiers: the row is read, the
\* row deleted, the document deleted (its session with it); the first row that
\* cannot be read ends the loop with the error.
DeleteViews(ids, table, docs, cache) ==
    IF ids = <<>> THEN [ok |-> TRUE, view_table |-> table, documents |-> docs,
                        open_cache |-> cache]
    ELSE IF Head(ids) \notin table
    THEN [ok |-> FALSE, view_table |-> table, documents |-> docs, open_cache |-> cache]
    ELSE DeleteViews(Tail(ids), table \ {Head(ids)},
                     [docs EXCEPT ![Head(ids)] = <<>>],
                     [cache EXCEPT ![Head(ids)] = <<>>])

\* The identifiers of an event, as a set.
Identified(identifiers) == {identifiers[i] : i \in 1..Len(identifiers)}

\* handle_trash_event, TrashEvent::Delete(identifiers, ret): the loop runs in an
\* immediate_transaction on the view table; an error rolls the rows back, the
\* document controller's deletes are not part of the transaction. After the
\* loop the parents of the deleted rows are notified.
handle_trash_event_Delete(identifiers) ==
    /\ LET r == DeleteViews(identifiers, view_table, documents, open_cache)
           notify_ids == {belong_to[v] : v \in Identified(identifiers)}
           parents == [v \in ViewIds |->
                          IF v \in Identified(identifiers) THEN NoParent
                          ELSE belong_to[v]]
       IN /\ view_table' = IF r.ok THEN r.view_table ELSE view_table
          /\ belong_to' = IF r.ok THEN parents ELSE belong_to
          /\ documents' = r.documents
          /\ open_cache' = r.open_cache
          /\ views_changed' =
                IF r.ok
                THEN {notify_views_changed(notify_id, r.view_table, parents, trash_ids) :
                        notify_id \in notify_ids}
                ELSE {}
          /\ view_call' = TrashReply("TrashEvent::Delete", identifiers,
                                     IF r.ok THEN "Ok" ELSE "RecordNotFound")
    /\ UNCHANGED <<server_views, latest_view_id, trash_ids>>
    /\ UNCHANGED outsideView

\* read_view_tables(identifiers, conn): every row is read, the first that is
\* missing is the error.
read_view_tables(identifiers) == Identified(identifiers) \subseteq view_table

\* TrashEvent::NewTrash and TrashEvent::Putback, the same body but for the
\* notification of the view itself: the rows are read and the parent of each
\* is notified.
NotifyParents(event, identifiers) ==
    /\ IF read_view_tables(identifiers)
       THEN /\ views_changed' = {notify_views_changed(belong_to[v], view_table, belong_to,
                                                 trash_ids) :
                               v \in Identified(identifiers)}
            /\ view_call' = TrashReply(event, identifiers, "Ok")
       ELSE /\ views_changed' = {}
            /\ view_call' = TrashReply(event, identifiers, "RecordNotFound")
    /\ UNCHANGED <<view_table, server_views, documents, open_cache, latest_view_id,
                   belong_to, trash_ids>>
    /\ UNCHANGED outsideView

handle_trash_event_NewTrash(identifiers) ==
    NotifyParents("TrashEvent::NewTrash", identifiers)

handle_trash_event_Putback(identifiers) ==
    NotifyParents("TrashEvent::Putback", identifiers)

\* The trash controller puts a view in the trash.
TrashController_add(view_id) ==
    /\ view_id \in view_table
    /\ view_id \notin trash_ids
    /\ trash_ids' = trash_ids \cup {view_id}
    /\ views_changed' = {}
    /\ UNCHANGED <<view_table, server_views, documents, open_cache, latest_view_id,
                   view_call, belong_to>>
    /\ UNCHANGED outsideView

\* The trash controller takes an id out of the trash: the view is put back, or
\* it was deleted for good.
TrashController_remove(view_id) ==
    /\ view_id \in trash_ids
    /\ trash_ids' = trash_ids \ {view_id}
    /\ views_changed' = {}
    /\ UNCHANGED <<view_table, server_views, documents, open_cache, latest_view_id,
                   view_call, belong_to>>
    /\ UNCHANGED outsideView

\* read_view(params): the row is read; a view whose id is in the trash is
\* record-not-found.
read_view(view_id) ==
    /\ view_call' =
         IF view_id \notin view_table
         THEN ViewCall("read_view", view_id, "RecordNotFound", <<>>, NoViewId)
         ELSE IF view_id \in trash_ids
         THEN ViewCall("read_view", view_id, "RecordNotFound", <<>>, NoViewId)
         ELSE ViewCall("read_view", view_id, "Ok", <<>>, NoViewId)
    /\ views_changed' = {}
    /\ UNCHANGED <<view_table, server_views, documents, open_cache, latest_view_id,
                   belong_to, trash_ids>>
    /\ UNCHANGED outsideView

\* read_views_belong_to(belong_to_id): the belonging views, as the reply's ids.
read_views_belong_to(belong_to_id) ==
    /\ view_call' =
         [op |-> "read_views_belong_to", id |-> belong_to_id, result |-> "Ok",
          data |-> <<>>, copy |-> NoViewId,
          ids |-> read_belonging_views_on_local(belong_to_id, view_table, belong_to,
                                                trash_ids)]
    /\ views_changed' = {}
    /\ UNCHANGED <<view_table, server_views, documents, open_cache, latest_view_id,
                   belong_to, trash_ids>>
    /\ UNCHANGED outsideView

\* update_view(params): the row is updated and read back in one transaction
\* (name, desc and thumbnail are not part of this model), then the parent is
\* notified; the view is returned whether or not it is in the trash.
update_view(view_id) ==
    /\ IF view_id \in view_table
       THEN /\ view_call' = ViewCall("update_view", view_id, "Ok", <<>>, NoViewId)
            /\ views_changed' = {notify_views_changed(belong_to[view_id], view_table,
                                                 belong_to, trash_ids)}
       ELSE /\ view_call' = ViewCall("update_view", view_id, "RecordNotFound", <<>>,
                                     NoViewId)
            /\ views_changed' = {}
    /\ UNCHANGED <<view_table, server_views, documents, open_cache, latest_view_id,
                   belong_to, trash_ids>>
    /\ UNCHANGED outsideView

\* The identifiers of one trash event: one or two distinct views.
TrashIdentifiers ==
    {<<v>> : v \in ViewIds}
    \cup {ids \in {<<v, w>> : v \in ViewIds, w \in ViewIds} : ids[1] # ids[2]}

CreateFailures == {"none", "save_document", "create_view_on_server",
                   "create_view_on_local"}

ViewInitVars ==
    /\ view_table = {}
    /\ server_views = {}
    /\ documents = [v \in ViewIds |-> <<>>]
    /\ open_cache = [v \in ViewIds |-> <<>>]
    /\ latest_view_id = NoViewId
    /\ view_call = ViewCall("none", NoViewId, "none", <<>>, NoViewId)
    /\ belong_to = [v \in ViewIds |-> NoParent]
    /\ trash_ids = {}
    /\ views_changed = {}

\* -------------------------------------------------------------- UserSession
Users == {"u1", "u2"}
NoSession == "none"

UserCall(op, user, result, notified) ==
    [op |-> op, user |-> user, result |-> result, notified |-> notified]

\* What get_session returns: the in-memory session, else the KV entry (which it
\* writes back through set_session); None of both is Unauthorized.
Cached == IF session # NoSession THEN session ELSE kv_session

\* UserSession::new(config): session is RwLock::new(None); KV and the user
\* databases are on disk.
UserSession_new ==
    /\ reader_pc = "idle" /\ sign_out_pc = "idle"
    /\ session' = NoSession
    /\ user_call' = UserCall("new", NoSession, "Ok", FALSE)
    /\ UNCHANGED <<kv_session, user_table, signed_out, reader_pc, reader_session,
                   sign_out_pc, sign_out_session, sign_out_done>>
    /\ UNCHANGED outsideUser

\* get_session of a concurrent caller, line 251: the in-memory session is read.
get_session_read ==
    /\ reader_pc = "idle"
    /\ IF session # NoSession
       THEN /\ user_call' = UserCall("get_session", session, "Ok", FALSE)
            /\ UNCHANGED <<reader_pc, reader_session>>
       ELSE /\ reader_pc' = "read_kv"
            /\ UNCHANGED <<user_call, reader_session>>
    /\ UNCHANGED <<session, kv_session, user_table, signed_out, sign_out_pc,
                   sign_out_session, sign_out_done>>
    /\ UNCHANGED outsideUser

\* line 253: KV::get_str(session_cache_key).
get_session_read_kv ==
    /\ reader_pc = "read_kv"
    /\ IF kv_session = NoSession
       THEN /\ user_call' = UserCall("get_session", NoSession, "Unauthorized", FALSE)
            /\ reader_pc' = "idle"
            /\ UNCHANGED reader_session
       ELSE /\ reader_session' = kv_session
            /\ reader_pc' = "set_kv"
            /\ UNCHANGED user_call
    /\ UNCHANGED <<session, kv_session, user_table, signed_out, sign_out_pc,
                   sign_out_session, sign_out_done>>
    /\ UNCHANGED outsideUser

\* line 257, set_session(Some(session)), line 244: KV::set_str.
get_session_set_kv ==
    /\ reader_pc = "set_kv"
    /\ kv_session' = reader_session
    /\ reader_pc' = "write_session"
    /\ UNCHANGED <<session, user_table, signed_out, user_call, reader_session,
                   sign_out_pc, sign_out_session, sign_out_done>>
    /\ UNCHANGED outsideUser

\* set_session, line 246: *self.session.write() = session; get_session returns Ok.
get_session_write_session ==
    /\ reader_pc = "write_session"
    /\ session' = reader_session
    /\ user_call' = UserCall("get_session", reader_session, "Ok", FALSE)
    /\ reader_pc' = "idle"
    /\ reader_session' = NoSession
    /\ UNCHANGED <<kv_session, user_table, signed_out, sign_out_pc, sign_out_session,
                   sign_out_done>>
    /\ UNCHANGED outsideUser

\* sign_in / sign_up, the same body: a user already logged in gets the profile;
\* else the server is asked, the session set, the user row saved, the
\* notification sent.
SignInOrUp(op, user, server_ok, db_ok) ==
    /\ sign_out_pc = "idle"
    /\ IF Cached = user
       THEN /\ session' = Cached
            /\ user_call' = UserCall(op, user,
                                IF user \in user_table THEN "Ok" ELSE "Err", FALSE)
            /\ signed_out' = IF user \in user_table THEN FALSE ELSE signed_out
            /\ UNCHANGED <<kv_session, user_table>>
       ELSE IF ~server_ok
       THEN /\ session' = Cached
            /\ user_call' = UserCall(op, user, "Err", FALSE)
            /\ UNCHANGED <<kv_session, user_table, signed_out>>
       ELSE /\ kv_session' = user
            /\ session' = user
            /\ IF ~db_ok \/ user \in user_table
               THEN /\ user_call' = UserCall(op, user, "Err", FALSE)
                    /\ UNCHANGED user_table
               ELSE /\ user_table' = user_table \cup {user}
                    /\ user_call' = UserCall(op, user, "Ok", TRUE)
            /\ signed_out' = FALSE
    /\ UNCHANGED <<reader_pc, reader_session, sign_out_pc, sign_out_session,
                   sign_out_done>>
    /\ UNCHANGED outsideUser

sign_in(user, server_ok, db_ok) == SignInOrUp("sign_in", user, server_ok, db_ok)

sign_up(user, server_ok, db_ok) == SignInOrUp("sign_up", user, server_ok, db_ok)

\* sign_out, line 126: get_session()?.
sign_out_get_session ==
    /\ sign_out_pc = "idle"
    /\ IF Cached = NoSession
       THEN /\ user_call' = UserCall("sign_out", NoSession, "Unauthorized", FALSE)
            /\ UNCHANGED <<session, sign_out_pc, sign_out_session, sign_out_done>>
       ELSE /\ session' = Cached
            /\ sign_out_session' = Cached
            /\ sign_out_pc' = "delete_user"
            /\ sign_out_done' = <<>>
            /\ UNCHANGED user_call
    /\ UNCHANGED <<kv_session, user_table, signed_out, reader_pc, reader_session>>
    /\ UNCHANGED outsideUser

\* lines 127-129: the user row is deleted, the user database closed.
sign_out_delete_user(db_ok) ==
    /\ sign_out_pc = "delete_user"
    /\ IF db_ok
       THEN /\ user_table' = user_table \ {sign_out_session}
            /\ sign_out_pc' = "remove_kv"
            /\ sign_out_done' = sign_out_done \o <<"delete_user", "close_user_db">>
            /\ UNCHANGED <<user_call, sign_out_session>>
       ELSE /\ user_call' = UserCall("sign_out", sign_out_session, "Err", FALSE)
            /\ sign_out_pc' = "idle"
            /\ sign_out_session' = NoSession
            /\ UNCHANGED <<user_table, sign_out_done>>
    /\ UNCHANGED <<session, kv_session, signed_out, reader_pc, reader_session>>
    /\ UNCHANGED outsideUser

\* line 130, set_session(None), line 243: KV::remove.
sign_out_remove_kv ==
    /\ sign_out_pc = "remove_kv"
    /\ kv_session' = NoSession
    /\ sign_out_pc' = "write_session"
    /\ UNCHANGED <<session, user_table, signed_out, user_call, reader_pc,
                   reader_session, sign_out_session, sign_out_done>>
    /\ UNCHANGED outsideUser

\* set_session, line 246: *self.session.write() = None.
sign_out_write_session ==
    /\ sign_out_pc = "write_session"
    /\ session' = NoSession
    /\ sign_out_pc' = "notify"
    /\ sign_out_done' = Append(sign_out_done, "set_session")
    /\ UNCHANGED <<kv_session, user_table, signed_out, user_call, reader_pc,
                   reader_session, sign_out_session>>
    /\ UNCHANGED outsideUser

\* line 131: notifier.notify_logout(&session.token).
sign_out_notify_logout ==
    /\ sign_out_pc = "notify"
    /\ sign_out_pc' = "sign_out_on_server"
    /\ sign_out_done' = Append(sign_out_done, "notify_logout")
    /\ UNCHANGED <<session, kv_session, user_table, signed_out, user_call, reader_pc,
                   reader_session, sign_out_session>>
    /\ UNCHANGED outsideUser

\* What the server answered to the sign-out request.
ServerAnswer(server_ok) ==
    IF server_ok THEN "sign_out_on_server: Ok" ELSE "sign_out_on_server: Err"

\* sign_out that hands the server's error on to its caller.
sign_out_return_server_error(server_ok) ==
    /\ sign_out_pc = "sign_out_on_server"
    /\ user_call' = UserCall("sign_out", sign_out_session,
                             IF server_ok THEN "Ok" ELSE "Err", TRUE)
    /\ signed_out' = IF server_ok THEN TRUE ELSE signed_out
    /\ sign_out_pc' = "idle"
    /\ sign_out_session' = NoSession
    /\ sign_out_done' = Append(sign_out_done, ServerAnswer(server_ok))
    /\ UNCHANGED <<session, kv_session, user_table, reader_pc, reader_session>>
    /\ UNCHANGED outsideUser

\* lines 132-134: sign_out_on_server makes the request in a spawned task, logs
\* its error and returns Ok whatever the server answered; sign_out returns Ok(()).
sign_out_return(server_ok) ==
    /\ sign_out_pc = "sign_out_on_server"
    /\ user_call' = UserCall("sign_out", sign_out_session, "Ok", TRUE)
    /\ signed_out' = TRUE
    /\ sign_out_pc' = "idle"
    /\ sign_out_session' = NoSession
    /\ sign_out_done' = Append(sign_out_done, ServerAnswer(server_ok))
    /\ UNCHANGED <<session, kv_session, user_table, reader_pc, reader_session>>
    /\ UNCHANGED outsideUser

UserInitVars ==
    /\ session = NoSession
    /\ kv_session = NoSession
    /\ user_table = {}
    /\ signed_out = FALSE
    /\ user_call = UserCall("none", NoSession, "none", FALSE)
    /\ reader_pc = "idle"
    /\ reader_session = NoSession
    /\ sign_out_pc = "idle"
    /\ sign_out_session = NoSession
    /\ sign_out_done = <<>>

OTInitVars ==
    /\ ot_A = NewDelta
    /\ ot_B = NewDelta
    /\ ot_op = "none"
    /\ ot_out = NewDelta

SessionInitVars ==
    /\ current_content = <<>>
    /\ committed_revision = 0
    /\ pending_local = <<>>
    /\ state = "Idle"
    /\ integrity = "ok"
    /\ session_op = "none"
    /\ session_result = "none"
    /\ last_md5 = NoChecksum
    /\ server_content = <<>>
    /\ server_revision = 0

BuilderInitVars ==
    /\ delta = NewDelta
    /\ pc = "building"
    /\ built = NewDelta
    /\ last = Call("new", 0, <<>>, {})
    /\ ncalls = 0

Init ==
    BuilderInitVars /\ SessionInitVars /\ ViewInitVars /\ OTInitVars /\ UserInitVars

Next ==
    \/ DeltaBuilder_new
    \/ \E n \in Lens, attrs \in AttrSets : DeltaBuilder_retain_with_attributes(n, attrs)
    \/ \E n \in Lens : DeltaBuilder_retain(n)
    \/ \E n \in Lens : DeltaBuilder_delete(n)
    \/ \E s \in Strs, attrs \in AttrSets : DeltaBuilder_insert_with_attributes(s, attrs)
    \/ \E s \in Strs : DeltaBuilder_insert(s)
    \/ DeltaBuilder_trim
    \/ DeltaBuilder_build

Spec == Init /\ [][Next]_vars

SessionInit ==
    BuilderInitVars /\ SessionInitVars /\ ViewInitVars /\ OTInitVars /\ UserInitVars

SessionNext ==
    \/ \E D \in EditsOn(Len(current_content), LocalChars) : receive_document_delta(D)
    \/ \E D \in EditsOn(Len(server_content), RemoteChars) : \E md5 \in RemoteChecksums(D) :
            apply_remote_revision(Revision(server_revision, D, md5))
    \/ (pending_local # <<>> /\ \E md5 \in AckChecksums : acknowledge(md5))
    \/ reload

SessionSpec == SessionInit /\ [][SessionNext]_vars

ViewInit ==
    BuilderInitVars /\ SessionInitVars /\ ViewInitVars /\ OTInitVars /\ UserInitVars

ViewNext ==
    \/ \E v \in ViewIds, data \in ViewData, fail \in CreateFailures :
            create_view_from_params(v, AppId, data, fail)
    \/ \E v \in ViewIds, json_fails \in BOOLEAN : open_view(v, json_fails)
    \/ \E v \in ViewIds : close_view(v)
    \/ \E v \in ViewIds : delete_view(v)
    \/ \E v \in ViewIds, json_fails \in BOOLEAN : export_doc(v, json_fails)
    \/ \E v \in ViewIds, copy \in ViewIds, fail \in CreateFailures \cup {"document_json"} :
            duplicate_view(v, copy, fail)
    \/ \E v \in ViewIds, c \in LocalChars : apply_document_delta(v, c)
    \/ \E v \in ViewIds : revision_acked(v)
    \/ \E v \in ViewIds : set_latest_view(v)
    \/ latest_visit_view
    \/ \E identifiers \in TrashIdentifiers : handle_trash_event_Delete(identifiers)

ViewSpec == ViewInit /\ [][ViewNext]_vars

OTInit ==
    /\ BuilderInitVars /\ SessionInitVars /\ ViewInitVars /\ UserInitVars
    /\ ot_A \in InputDeltas
    /\ ot_B \in InputDeltas
    /\ ot_op = "none"
    /\ ot_out = NewDelta

OTNext ==
    \/ Delta_compose
    \/ \E priority \in BOOLEAN : Delta_transform(priority)

OTSpec == OTInit /\ [][OTNext]_vars

\* Views of two apps, the trash and the reads that go through it; no document
\* is opened.
TrashInit ==
    BuilderInitVars /\ SessionInitVars /\ ViewInitVars /\ OTInitVars /\ UserInitVars

TrashNext ==
    \/ \E v \in ViewIds, belong_to_id \in Parents, fail \in CreateFailures :
            create_view_from_params(v, belong_to_id, TrashViewData, fail)
    \/ \E v \in ViewIds : TrashController_add(v)
    \/ \E v \in ViewIds : TrashController_remove(v)
    \/ \E identifiers \in TrashIdentifiers : handle_trash_event_NewTrash(identifiers)
    \/ \E identifiers \in TrashIdentifiers : handle_trash_event_Putback(identifiers)
    \/ \E identifiers \in TrashIdentifiers : handle_trash_event_Delete(identifiers)
    \/ \E v \in ViewIds : read_view(v)
    \/ \E belong_to_id \in Parents : read_views_belong_to(belong_to_id)
    \/ \E v \in ViewIds : update_view(v)

TrashSpec == TrashInit /\ [][TrashNext]_vars

UserInit ==
    BuilderInitVars /\ SessionInitVars /\ ViewInitVars /\ OTInitVars /\ UserInitVars

UserNext ==
    \/ UserSession_new
    \/ get_session_read
    \/ get_session_read_kv
    \/ get_session_set_kv
    \/ get_session_write_session
    \/ \E user \in Users, server_ok \in BOOLEAN, db_ok \in BOOLEAN :
            sign_in(user, server_ok, db_ok)
    \/ \E user \in Users, server_ok \in BOOLEAN, db_ok \in BOOLEAN :
            sign_up(user, server_ok, db_ok)
    \/ sign_out_get_session
    \/ \E db_ok \in BOOLEAN : sign_out_delete_user(db_ok)
    \/ sign_out_remove_kv
    \/ sign_out_write_session
    \/ sign_out_notify_logout
    \/ \E server_ok \in BOOLEAN : sign_out_return(server_ok)

UserSpec == UserInit /\ [][UserNext]_vars

\* ================================================================ claims
RECURSIVE BaseSum(_), TargetSum(_)
\* Sum of the lengths of the Retain and Delete operations.
BaseSum(ops) ==
    IF ops = <<>> THEN 0
    ELSE (IF Head(ops).kind \in {"Retain", "Delete"} THEN Head(ops).n ELSE 0)
         + BaseSum(Tail(ops))
\* Sum of the lengths of the Retain and Insert operations.
TargetSum(ops) ==
    IF ops = <<>> THEN 0
    ELSE (IF Head(ops).kind \in {"Retain", "Insert"} THEN Head(ops).n ELSE 0)
         + TargetSum(Tail(ops))

EndsWithPlainRetain(d) ==
    Len(d.ops) > 0 /\ LastOp(d).kind = "Retain" /\ is_plain(LastOp(d))

\* A builder call has just been made (the step's call is last').
Called(ops) == ncalls' = ncalls + 1 /\ last'.op \in ops

\* C1 (as stated): the Delta returned by build() never ends with a plain Retain.
C1_BuildTrimsTrailingPlainRetain ==
    pc = "built" => ~EndsWithPlainRetain(built)

\* C1 (amended): build() returns the accumulated delta as it is; it is trim()
\* that removes one trailing plain Retain, so a Delta built right after trim()
\* never ends with a plain Retain.
C1_TrimThenBuildHasNoTrailingPlainRetain ==
    /\ pc = "built" => built = delta
    /\ (pc = "built" /\ last.op = "trim") => ~EndsWithPlainRetain(built)

\* insert("a").retain(MaxN).trim().build(): the Retain is gone (base_len still
\* counts it), the Insert is the last operation.
C1_Witness ==
    /\ pc = "built" /\ last.op = "trim" /\ ncalls = 3
    /\ built.ops = <<Insert(<<"a">>, {})>>
    /\ built.base_len = MaxN

\* C2 (as stated): every built Delta has base_len = sum of its Retain and Delete
\* lengths and target_len = sum of its Retain and Insert lengths, also after
\* trim() removed a trailing plain Retain.
C2_LengthInvariant ==
    pc = "built" =>
        /\ built.base_len = BaseSum(built.ops)
        /\ built.target_len = TargetSum(built.ops)

NoAdjacentMergeable(d) ==
    \A i \in 1..(Len(d.ops) - 1) :
        ~(/\ d.ops[i].kind = d.ops[i + 1].kind
          /\ d.ops[i].kind \in {"Retain", "Insert"}
          /\ d.ops[i].attrs = d.ops[i + 1].attrs)

\* A Retain (Insert) appended right after one with identical attributes merges
\* into it: one operation, the lengths summed (the contents concatenated).
C3_MergeStep ==
    /\ (/\ Called({"retain", "retain_with_attributes"}) /\ last'.n > 0
        /\ Len(delta.ops) > 0 /\ LastOp(delta).kind = "Retain"
        /\ LastOp(delta).attrs = last'.attrs)
       => delta'.ops = ReplaceLast(delta.ops,
                                   Retain(LastOp(delta).n + last'.n, last'.attrs))
    /\ (/\ Called({"insert", "insert_with_attributes"}) /\ Len(last'.s) > 0
        /\ Len(delta.ops) > 0 /\ LastOp(delta).kind = "Insert"
        /\ LastOp(delta).attrs = last'.attrs)
       => delta'.ops = ReplaceLast(delta.ops,
                                   Insert(LastOp(delta).s \o last'.s, last'.attrs))

\* C3: after any sequence of builder calls no two adjacent Retains and no two
\* adjacent Inserts have identical attributes, and an append after an operation
\* of the same kind and attributes yields the single merged operation.
C3_AdjacentRetainsAndInsertsMerge ==
    /\ [](NoAdjacentMergeable(delta) /\ NoAdjacentMergeable(built))
    /\ [][C3_MergeStep]_vars

\* retain(MaxN).retain(MaxN): one Retain of 2 * MaxN.
C3_Witness ==
    /\ last.op = "retain" /\ ncalls = 2
    /\ delta.ops = <<Retain(MaxN + MaxN, {})>>

C4_DeleteStep ==
    /\ (/\ Called({"delete"}) /\ last'.n > 0
        /\ Len(delta.ops) > 0 /\ LastOp(delta).kind = "Delete")
       => delta'.ops = ReplaceLast(delta.ops, Delete(LastOp(delta).n + last'.n))
    /\ (/\ Called({"delete"}) /\ last'.n > 0
        /\ Len(delta.ops) > 0 /\ LastOp(delta).kind = "Insert")
       => delta'.ops = Append(delta.ops, Delete(last'.n))
    /\ (/\ Called({"insert", "insert_with_attributes"}) /\ Len(last'.s) > 0
        /\ Len(delta.ops) > 0 /\ LastOp(delta).kind = "Delete")
       => delta'.ops = Append(delta.ops, Insert(last'.s, last'.attrs))

\* C4: a delete appended after a Delete merges into one Delete of the summed
\* count; a Delete and an adjacent Insert are never merged and stay in the order
\* in which they were appended.
C4_DeleteMergesOnlyWithDelete ==
    /\ [](\A i \in 1..(Len(delta.ops) - 1) :
            ~(delta.ops[i].kind = "Delete" /\ delta.ops[i + 1].kind = "Delete"))
    /\ [][C4_DeleteStep]_vars

\* insert("a").delete(MaxN).delete(MaxN).insert("b"): Insert, one Delete of
\* 2 * MaxN, Insert, in the order of the calls.
C4_Witness ==
    /\ last.op = "insert" /\ ncalls = 4
    /\ delta.ops = <<Insert(<<"a">>, {}), Delete(MaxN + MaxN), Insert(<<"b">>, {})>>

C5_ZeroStep ==
    /\ (Called({"retain", "retain_with_attributes", "delete"}) /\ last'.n = 0)
       => delta' = delta
    /\ (Called({"insert", "insert_with_attributes"}) /\ last'.s = <<>>)
       => delta' = delta

\* C5: a call with n = 0 or with the empty string leaves the delta unchanged, and
\* every operation of the delta, building or built, has length >= 1.
C5_ZeroLengthIsNoOp ==
    /\ [](/\ \A i \in 1..Len(delta.ops) : delta.ops[i].n >= 1
          /\ \A i \in 1..Len(built.ops) : built.ops[i].n >= 1)
    /\ [][C5_ZeroStep]_vars

\* retain(MaxN).delete(0).build(): the delete left the one Retain alone.
C5_Witness ==
    /\ pc = "built" /\ last.op = "delete" /\ last.n = 0 /\ ncalls = 2
    /\ built.ops = <<Retain(MaxN, {})>>

\* C6: trimming twice gives the same operations as trimming once, for every
\* delta the builder holds or returned; a delta just trimmed is a fixed point.
C6_TrimIdempotent ==
    /\ trim(trim(delta)).ops = trim(delta).ops
    /\ trim(trim(built)).ops = trim(built).ops
    /\ last.op = "trim" => trim(delta) = delta

\* retain_with_attributes(MaxN, bold).retain(MaxN).trim(): the plain Retain is
\* popped and the attributed Retain under it stays on a second trim.
C6_Witness ==
    /\ last.op = "trim" /\ ncalls = 3
    /\ delta.ops = <<Retain(MaxN, {"bold"})>>
    /\ delta.base_len = MaxN + MaxN

\* What trim does to a delta: at most the last operation goes, and it goes
\* exactly when it is a Retain with empty attributes; the operations before it
\* stay as they are, in order.
TrimFrame(d) ==
    LET t == trim(d)
    IN /\ Len(d.ops) - Len(t.ops) \in {0, 1}
       /\ t.ops = SubSeq(d.ops, 1, Len(t.ops))
       /\ (Len(t.ops) < Len(d.ops)) <=> EndsWithPlainRetain(d)

\* C17: trim removes at most one operation and only a last Retain with empty
\* attributes: on the empty delta and on a delta ending in a Delete, an Insert
\* or an attributed Retain it changes nothing, and all operations before the
\* last keep their kind, length, attributes and order.
C17_TrimFrame ==
    /\ TrimFrame(delta)
    /\ TrimFrame(built)
    /\ TrimFrame(NewDelta) /\ trim(NewDelta) = NewDelta
    /\ (Len(delta.ops) > 0 /\ ~(LastOp(delta).kind = "Retain" /\ LastOp(delta).attrs = {}))
       => trim(delta) = delta

\* insert("a").delete(MaxN).trim(): the delta ending in a Delete is as it was.
C17_Witness ==
    /\ last.op = "trim" /\ ncalls = 3
    /\ delta.ops = <<Insert(<<"a">>, {}), Delete(MaxN)>>

\* C7 (as stated): every pending revision carries base_revision =
\* committed_revision + its position in pending_local (0 for the oldest): a local
\* revision is built with committed_revision + pending_local.len(), and the
\* numbering stays gap-free under local edits, remote revisions and
\* acknowledgments.
C7_PendingRevisionsNumbered ==
    \A i \in 1..Len(pending_local) :
        pending_local[i].base_revision = committed_revision + (i - 1)

\* A remote revision into the empty log while revisions are pending: the local
\* side has priority, so the remote insert lands after the pending text.
C8_TieStep ==
    (/\ session_op' = "remote" /\ server_revision' = server_revision + 1
     /\ server_content = <<>> /\ Len(server_content') = 1)
    => current_content' = current_content \o server_content'

\* C8: after a remote revision was reconciled with the pending revisions,
\* current_content is the log's content with the (transformed) pending deltas
\* applied on top, oldest first; with nothing pending it is the log's content.
C8_RemoteReconciledWithPending ==
    /\ [](/\ ApplyAll(pending_local, server_content) = current_content
          /\ pending_local = <<>> => current_content = server_content)
    /\ [][C8_TieStep]_vars

\* Two pending local inserts ("a", then "a" at the end), then a remote insert of
\* "b" at position 0: all three inserts are in current_content, the local two
\* first, and the pending two apply on top of the log's one.
C8_Witness ==
    /\ session_op = "remote" /\ session_result = "Ok"
    /\ committed_revision = 1 /\ Len(pending_local) = 2
    /\ server_content = <<"b">>
    /\ current_content = <<"a", "a", "b">>

C9_Step ==
    /\ (session_op' = "local")
       => /\ state' = "LocalPending"
          /\ Len(pending_local') = Len(pending_local) + 1
          /\ SubSeq(pending_local', 1, Len(pending_local)) = pending_local
    /\ (session_op' = "ack")
       => /\ pending_local # <<>>
          /\ pending_local' = Tail(pending_local)
          /\ committed_revision' = committed_revision + 1
          /\ (state' = "Idle") <=> (pending_local' = <<>>)

\* C9: the session is Idle exactly when pending_local is empty; a local edit
\* leads to LocalPending, an acknowledgment pops the oldest pending revision,
\* advances committed_revision by 1 and leads to Idle only if none is left.
C9_IdleIffNothingPending ==
    /\ []((state = "Idle") <=> (pending_local = <<>>))
    /\ [][C9_Step]_vars

\* An acknowledgment that left one revision pending: still LocalPending.
C9_Witness ==
    /\ session_op = "ack" /\ state = "LocalPending"
    /\ Len(pending_local) = 1 /\ committed_revision >= 1

C10_FailedStep ==
    integrity = "error"
    => /\ session_op' = "reload"
       /\ integrity' = "ok"
       /\ current_content' = server_content
       /\ pending_local' = <<>>

\* C10: a remote or acknowledged revision whose recorded checksum differs from
\* the checksum of current_content after it was applied returns IntegrityError
\* and leaves the session unusable: its only next step is the reload from the log.
C10_ChecksumMismatchIsFatal ==
    /\ [](session_op \in {"remote", "ack"}
          => /\ (last_md5 # Checksum(current_content))
                <=> (session_result = "IntegrityError")
             /\ (session_result = "IntegrityError") <=> (integrity = "error"))
    /\ [](integrity = "error" => session_op \in {"remote", "ack"})
    /\ [][C10_FailedStep]_vars

\* A remote revision with a corrupt checksum arrived while a revision was pending.
C10_Witness ==
    /\ integrity = "error" /\ session_op = "remote"
    /\ session_result = "IntegrityError"
    /\ last_md5 = CorruptChecksum
    /\ pending_local # <<>>

\* ------------------------------------------------- ViewController claims
\* A ViewController call of the given kinds has just been made on document v.
ViewCalled(ops, v) == view_call'.op \in ops /\ view_call'.id = v

\* The session the document has, or the one an open would load.
SessionOf(cache, docs, v) ==
    IF cache[v] # <<>> THEN Head(cache[v]) ELSE LoadSession(docs[v])

HasPending(v) == open_cache[v] # <<>> /\ Editor(open_cache, v).pending_local # <<>>

C11_Step ==
    \A v \in ViewIds :
        /\ (open_cache[v] = <<>> /\ open_cache'[v] # <<>>)
           => ViewCalled({"open_view", "export_doc", "duplicate_view"}, v)
        /\ ViewCalled({"close_view", "delete_view"}, v) => open_cache'[v] = <<>>

\* C11: whatever sequence of open_view, export_doc, duplicate_view, close_view
\* and delete_view calls runs, a document id has at most one Document Session; a
\* session comes into being only in a call that opens the document (open_view,
\* export_doc, duplicate_view) and none is left after close_view or delete_view
\* of the document.
C11_OneSessionFromOpenToClose ==
    /\ [](\A v \in ViewIds : Len(open_cache[v]) <= 1)
    /\ [][C11_Step]_vars

\* v1 was opened and closed again while the session export_doc made for v2 is
\* still there.
C11_Witness ==
    /\ view_call.op = "close_view" /\ view_call.id = "v1"
    /\ latest_view_id = "v1"
    /\ open_cache["v1"] = <<>>
    /\ Len(open_cache["v2"]) = 1

C12_Step ==
    \A v \in ViewIds :
        (ViewCalled({"export_doc", "duplicate_view"}, v) /\ CanOpen(v))
        => /\ SessionOf(open_cache', documents', v) = SessionOf(open_cache, documents, v)
           /\ documents'[v] = documents[v]
           /\ view_call'.result = "Ok"
              => view_call'.data = document_json(SessionOf(open_cache, documents, v))
           /\ (view_call'.op = "duplicate_view" /\ view_call'.result = "Ok")
              => documents'[view_call'.copy] = <<initial_revision(view_call'.data)>>

C13_Step ==
    \A v \in ViewIds :
        (ViewCalled({"close_view", "delete_view"}, v) /\ HasPending(v))
        => /\ view_call'.result = "UnsyncedEditsDiscarded"
           /\ open_cache'[v] = <<>>

\* C13: close_view or delete_view of a document whose session has
\* unacknowledged pending local revisions tears the session down (its in-flight
\* sends with it) and returns the "unsynced edits discarded" condition, never
\* plain success.
C13_UnsyncedEditsSurfaced == [][C13_Step]_vars

\* delete_view of the document with a pending local revision.
C13_Witness ==
    /\ view_call.op = "delete_view" /\ view_call.result = "UnsyncedEditsDiscarded"
    /\ open_cache[view_call.id] = <<>>
    /\ Len(documents[view_call.id]) = 1

\* open_view succeeded on a created view that has its initial revision only and
\* no pending edit.
OpenedUnedited ==
    /\ view_call.op = "open_view" /\ view_call.result = "Ok"
    /\ view_call.id \in view_table
    /\ Len(documents[view_call.id]) = 1
    /\ ~HasPending(view_call.id)

\* The view_data the view was created with.
CreatedWith(v) == documents[v][1].delta

\* A view made on the server or in the local table has its initial revision saved.
C14_SavedFirstStep ==
    \A v \in ViewIds :
        (v \in (server_views' \ server_views) \/ v \in (view_table' \ view_table))
        => documents'[v] = <<initial_revision(view_call'.data)>>

\* C14 (as stated): after create_view_from_params succeeded with view_data V and
\* no edit was applied, open_view returns delta_json = V; the initial revision is
\* saved before the view is made on the server or in the local table.
C14_OpenReturnsViewData ==
    /\ [](OpenedUnedited => view_call.data = CreatedWith(view_call.id))
    /\ [][C14_SavedFirstStep]_vars

CanonicalJson(json) ==
    /\ NoAdjacentMergeable([ops |-> json])
    /\ \A i \in 1..Len(json) : json[i].n >= 1

\* C14 (amended): open_view returns the canonical form of V, the JSON of the
\* delta the replay of the initial revision builds (adjacent operations with
\* equal attributes merged); it equals V when V is canonical. The initial
\* revision is saved before the view is made on the server or in the local table.
C14_OpenReturnsCanonicalViewData ==
    /\ [](OpenedUnedited
          => /\ view_call.data
                = Delta_to_json(Delta_from_json(CreatedWith(view_call.id)))
             /\ CanonicalJson(CreatedWith(view_call.id))
                => view_call.data = CreatedWith(view_call.id))
    /\ [][C14_SavedFirstStep]_vars

\* A view created with insert("a"), insert("b") opens as insert("ab").
C14_Witness ==
    /\ OpenedUnedited
    /\ CreatedWith(view_call.id) = <<Insert(<<"a">>, {}), Insert(<<"b">>, {})>>
    /\ view_call.data = <<Insert(<<"a", "b">>, {})>>

C20_Step ==
    /\ (view_call'.op = "delete_view" /\ view_call'.id # latest_view_id)
       => latest_view_id' = latest_view_id
    /\ (view_call'.op = "delete_view" /\ view_call'.id = latest_view_id)
       => latest_view_id' = NoViewId
    /\ (view_call'.op = "open_view" /\ view_call'.result # "Ok")
       => latest_view_id' = latest_view_id
    /\ (view_call'.op = "TrashEvent::Delete" /\ view_call'.result = "Ok")
       => \A i \in 1..Len(view_call'.ids) : latest_view_id' # view_call'.ids[i]

\* C20 (as stated): after any sequence of open_view, set_latest_view, delete_view
\* and trash Delete events, LATEST_VIEW_ID never names a view delete_view was
\* called for or whose row was permanently deleted, so latest_visit_view returns
\* None or an existing view; delete_view of another document leaves the id
\* unchanged and a failed open_view does not change it.
C20_LatestViewExists ==
    /\ [](view_call.op = "latest_visit_view" => view_call.result \in {"None", "Some"})
    /\ [][C20_Step]_vars

\* ------------------------------------------------ compose / transform claims
\* The two sides of the convergence equation for A and B, A having priority.
ATheBPrime(A, B) == Compose(A, Transform(B, A, FALSE))
BThenAPrime(A, B) == Compose(B, Transform(A, B, TRUE))

\* C15 (as stated): for all deltas A and B with equal base_len,
\* compose(A, transform(B, A, false)) = compose(B, transform(A, B, true)); when
\* both insert at the same position the insert of the delta with priority is
\* ordered first.
C15_Convergence ==
    (ot_op \in {"transform", "transform, priority"} /\ ot_A.base_len = ot_B.base_len)
    => /\ ATheBPrime(ot_A, ot_B) # LengthMismatch
       /\ ATheBPrime(ot_A, ot_B) = BThenAPrime(ot_A, ot_B)
       /\ (ot_A.ops # <<>> /\ ot_B.ops # <<>> /\ Head(ot_A.ops).kind = "Insert"
           /\ Head(ot_B.ops).kind = "Insert")
          => /\ Head(Transform(ot_A, ot_B, TRUE).ops) = Head(ot_A.ops)
             /\ Head(Transform(ot_B, ot_A, FALSE).ops).kind = "Retain"

\* No two adjacent operations that merge, no empty operation, no trailing plain
\* Retain.
CanonicalDelta(d) ==
    /\ NoAdjacentMergeable(d)
    /\ \A i \in 1..(Len(d.ops) - 1) :
           ~(d.ops[i].kind = "Delete" /\ d.ops[i + 1].kind = "Delete")
    /\ \A i \in 1..Len(d.ops) : d.ops[i].n >= 1
    /\ ~EndsWithPlainRetain(d)

\* Scenario 1: insert("Hi") composed with retain(2) + insert("!") is insert("Hi!").
Scenario1 ==
    Compose(Delta_insert(NewDelta, <<"H", "i">>, {}),
            Delta_insert(Delta_retain(NewDelta, 2, {}), <<"!">>, {})).ops
    = <<Insert(<<"H", "i", "!">>, {})>>

C18_SignedOutStaysSignedOut ==
    signed_out
    => /\ session = NoSession
       /\ kv_session = NoSession
       /\ user_call.op = "get_session" => user_call.result = "Unauthorized"

\* C19 (as stated): when sign_in or sign_up returns an error, no session has
\* been established or replaced (what get_session finds, in memory or in KV, and
\* the KV entry are as before the call) and no login notification was sent.
C19_FailedSignInLeavesSession ==
    [][(/\ user_call' # user_call
        /\ user_call'.op \in {"sign_in", "sign_up"}
        /\ user_call'.result = "Err")
       => /\ Cached' = Cached
          /\ kv_session' = kv_session
          /\ ~user_call'.notified]_vars

\* ------------------------------------------- trash and creation claims
\* The step is the handling of a TrashEvent::Delete: the one reply it sends is
\* the new view_call.
TrashDeleteHandled == view_call'.op = "TrashEvent::Delete"

\* C21 (as stated): handling a TrashEvent::Delete is all-or-nothing: when the
\* reply is an error no view row and no document of any identifier of the event
\* has been deleted; when it is Ok every identified row and its document are
\* deleted; one reply is sent per event.
C21_TrashDeleteAllOrNothing ==
    [][TrashDeleteHandled
       => LET ids == view_call'.ids
          IN IF view_call'.result = "Ok"
             THEN \A i \in 1..Len(ids) :
                     ids[i] \notin view_table' /\ documents'[ids[i]] = <<>>
             ELSE /\ view_table' = view_table
                  /\ \A i \in 1..Len(ids) : documents'[ids[i]] = documents[ids[i]]]_vars

\* C23 (as stated): create_view_from_params leaves no partial state on failure:
\* when creating the view on the server or saving it locally fails, neither a
\* local view row nor a saved initial revision of that view id remains; in every
\* reachable state a local view row has a saved document.
C23_CreateLeavesNoPartialState ==
    /\ [](\A v \in view_table : documents[v] # <<>>)
    /\ [][(/\ view_call'.op = "create_view_from_params"
           /\ view_call'.result = "Err")
          => /\ view_call'.id \notin view_table'
             /\ documents'[view_call'.id] = <<>>]_vars

\* ------------------------------------------------------- sign_out claim
\* What sign_out has done when it asks the server.
BeforeServer == <<"delete_user", "close_user_db", "set_session", "notify_logout">>

C24_Step ==
    /\ (sign_out_pc = "sign_out_on_server" /\ sign_out_pc' = "idle")
       => /\ sign_out_done = BeforeServer
          /\ sign_out_session \notin user_table
          /\ \E server_ok \in BOOLEAN :
                sign_out_done' = Append(BeforeServer, ServerAnswer(server_ok))
          /\ user_call' = UserCall("sign_out", sign_out_session, "Ok", TRUE)
    /\ (sign_out_pc = "delete_user" /\ sign_out_pc' = "remove_kv")
       => sign_out_session \notin user_table'
    /\ (sign_out_pc = "remove_kv" /\ sign_out_pc' = "write_session")
       => kv_session' = NoSession
    /\ (sign_out_pc = "write_session" /\ sign_out_pc' = "notify")
       => session' = NoSession
    /\ (/\ user_call' # user_call
        /\ user_call'.op = "sign_out"
        /\ user_call'.result = "Unauthorized")
       => /\ Cached = NoSession
          /\ UNCHANGED <<session, kv_session, user_table, signed_out, sign_out_done>>

\* C24: sign_out does not depend on the server: the user row is deleted, the
\* user database closed, the session cleared and the logout notification sent
\* before the server is asked, and sign_out returns Ok even when the server
\* answers with an error; with no session it returns Unauthorized and changes
\* nothing.
C24_SignOutIgnoresServer == [][C24_Step]_vars

\* sign_out returned Ok although the server answered its request with an error.
C24_Witness ==
    /\ user_call = UserCall("sign_out", "u1", "Ok", TRUE)
    /\ sign_out_done = Append(BeforeServer, ServerAnswer(FALSE))
    /\ "u1" \notin user_table

\* ------------------------------------------------------------ trash claim
\* The views of a parent that are not in the trash.
Visible(belong_to_id) ==
    {v \in view_table : belong_to[v] = belong_to_id /\ v \notin trash_ids}

\* The list names each view of the set once and no other.
ListsExactly(items, views) ==
    /\ Identified(items) = views
    /\ Len(items) = Cardinality(views)

C22_Step ==
    /\ (view_call'.op = "read_view" /\ UNCHANGED <<view_table, trash_ids>>)
       => /\ view_call'.id \in trash_ids => view_call'.result = "RecordNotFound"
          /\ view_call'.id \in view_table \ trash_ids => view_call'.result = "Ok"
    /\ (view_call'.op = "read_views_belong_to"
        /\ UNCHANGED <<view_table, trash_ids, belong_to>>)
       => ListsExactly(view_call'.ids, Visible(view_call'.id))
    /\ \A n \in views_changed' : ListsExactly(n.items, Visible(n.belong_to_id)')

\* C22: a view whose id is in the trash is not visible: read_view returns
\* record-not-found for it, read_views_belong_to and the payload of every
\* AppViewsChanged notification list exactly the views of the parent whose id
\* is not in the trash, and a view whose id is not (or no longer) in the trash
\* is returned.
C22_TrashedViewsAreHidden == [][C22_Step]_vars

\* Both views belong to a1, v1 is in the trash: read_views_belong_to(a1)
\* returned v2 alone.
C22_Witness ==
    /\ view_call.op = "read_views_belong_to"
    /\ view_call.id = "a1"
    /\ view_table = {"v1", "v2"}
    /\ belong_to["v1"] = "a1" /\ belong_to["v2"] = "a1"
    /\ trash_ids = {"v1"}
    /\ view_call.ids = <<"v2">>

====
